---- MODULE Spec2Model ----
(***************************************************************************)
(* A model of smart_health_card_reader/parse.py: the decode / verify       *)
(* pipeline for SMART Health Card QR data.                                 *)
(*                                                                         *)
(* A Python str is a sequence of code points, a Python bytes value a       *)
(* sequence of numbers in 0..255.  An exception that leaves a function is  *)
(* a record [kind |-> "raise", exc |-> <type>, ...] carrying what the      *)
(* exception's message reports; a normal result is                         *)
(* [kind |-> "return", value |-> v].                                       *)
(***************************************************************************)
EXTENDS Integers, Sequences, FiniteSets, TLC

VARIABLES
    entry,          \* the function the caller invoked
    pc,             \* position inside the running call
    ret,            \* outcome of the invoked function
    qr_int_str,     \* qr_int_str_to_b64: its argument
    start,          \* qr_int_str_to_b64: loop index (0-based, as range(0, str_len, 2))
    decoded_chars,  \* qr_int_str_to_b64: characters transcoded so far
    strict_mode,    \* whether the interpreter's base64 validation is the strict one
    qr_data,        \* extract_jws_data_from_qr_data: its argument
    b64,            \* extract_jws_data_from_qr_data: the transcoded string
    fields,         \* extract_jws_data_from_qr_data: (header, payload, sig)
    verify_args,    \* validate_jws_data: signed_doc, header_json, payload_json, sig
    kid,            \* validate_jws_data / get_public_key_from_keyset: the key id
    pk_url,         \* validate_jws_data: the key-discovery URL
    public_keyset_json, \* the key-set JSON text (pk_json_str)
    pk,             \* validate_jws_data: the selected key record
    pk_point,       \* validate_jws_data: (pk_x, pk_y)
    rs,             \* validate_jws_data / decode_sig: (r, s) as bytes
    http_log,       \* every HTTP GET issued so far: its URL and its response
    log_mark,       \* the length of http_log when the running call began
    calls           \* the number of calls begun

qis_vars == <<qr_int_str, start, decoded_chars>>
ext_vars == <<qr_data, b64, fields>>
ver_vars == <<verify_args, kid, pk_url, public_keyset_json, pk, pk_point, rs>>
net_vars == <<http_log, log_mark, calls>>
vars == <<entry, pc, ret, qr_int_str, start, decoded_chars, strict_mode,
          qr_data, b64, fields, verify_args, kid, pk_url,
          public_keyset_json, pk, pk_point, rs, http_log, log_mark, calls>>

(***************************************************************************)
(* Bounds of the checked instances.                                        *)
(***************************************************************************)
MaxStrLen == 4
MaxSegments == 4
MaxKeys == 2
MaxSigChars == 90
MaxCalls == 2

(***************************************************************************)
(* Generic helpers.                                                        *)
(***************************************************************************)
NoResult == [kind |-> "none"]

\* The locals of validate_jws_data before it has run.
NoVerifyState ==
    /\ verify_args = <<>>
    /\ kid = ""
    /\ pk_url = ""
    /\ public_keyset_json = [parses |-> FALSE]
    /\ pk = <<>>
    /\ pk_point = <<>>
    /\ rs = <<>>

\* No request has been issued and this is the first call.
NoCallsYet ==
    /\ http_log = <<>>
    /\ log_mark = 0
    /\ calls = 1
Return(v) == [kind |-> "return", value |-> v]

Range(s) == {s[i] : i \in 1..Len(s)}

\* All sequences over S of length at most n.
SeqsUpTo(S, n) == UNION {[1..k -> S] : k \in 0..n}

\* Python slice s[a:b] for 0 <= a, with b clipped to len(s).
Slice(s, a, b) ==
    LET hi == IF b < Len(s) THEN b ELSE Len(s)
    IN  IF a >= hi THEN <<>> ELSE [i \in 1..(hi - a) |-> s[a + i]]

(***************************************************************************)
(* qr_int_str_to_b64 (the numeric-to-Base64 transcoder).                   *)
(***************************************************************************)
\* set("0123456789") as code points
DigitChars == 48..57

\* Mutant: only the first offending character is collected.
InvalidChars_FirstOnly(s) ==
    LET bad == {i \in 1..Len(s) : s[i] \notin DigitChars}
    IN  IF bad = {} THEN {}
        ELSE {s[CHOOSE i \in bad : \A j \in bad : i <= j]}

\* found_chars - set("0123456789")
InvalidChars(s) == Range(s) \ DigitChars

\* Mutant: the parity test never fires.
OddLength_Never(n) == n % 2 > 1

\* str_len % 2 > 0
OddLength(n) == n % 2 > 0

\* int(text) for a non-empty string of the digits 0-9
RECURSIVE IntOfDigits(_)
IntOfDigits(text) ==
    IF text = <<>> THEN 0
    ELSE 10 * IntOfDigits(SubSeq(text, 1, Len(text) - 1)) + (text[Len(text)] - 48)

\* Mutant: the slice takes one character instead of two.
PairChar_OneDigit(s, st) == IntOfDigits(Slice(s, st, st + 1)) + 45

\* chr(int(qr_int_str[start : start + 2]) + 45); only reached with digits
PairChar(s, st) == IntOfDigits(Slice(s, st, st + 2)) + 45

InvalidCharsError(cs) ==
    [kind |-> "raise", exc |-> "ValueError",
     text |-> "Invalid characters found (non-numeric)", invalid_chars |-> cs]

OddLengthError(n) ==
    [kind |-> "raise", exc |-> "ValueError",
     text |-> "Odd number of characters in input - invalid!", str_len |-> n]

\* lines 56-59
CheckChars ==
    /\ pc = "qis_check_chars"
    /\ IF Cardinality(InvalidChars(qr_int_str)) > 0
         THEN /\ pc' = "raised"
              /\ ret' = InvalidCharsError(InvalidChars(qr_int_str))
         ELSE /\ pc' = "qis_check_len"
              /\ ret' = ret
    /\ UNCHANGED <<entry, qr_int_str, start, decoded_chars, strict_mode, ver_vars, net_vars, ext_vars>>

\* lines 61-65
CheckLen ==
    /\ pc = "qis_check_len"
    /\ IF OddLength(Len(qr_int_str))
         THEN /\ pc' = "raised"
              /\ ret' = OddLengthError(Len(qr_int_str))
         ELSE /\ pc' = "qis_loop"
              /\ ret' = ret
    /\ UNCHANGED <<entry, qr_int_str, start, decoded_chars, strict_mode, ver_vars, net_vars, ext_vars>>

\* lines 66-68: one iteration of the loop
LoopStep ==
    /\ pc = "qis_loop"
    /\ start < Len(qr_int_str)
    /\ decoded_chars' = Append(decoded_chars, PairChar(qr_int_str, start))
    /\ start' = start + 2
    /\ UNCHANGED <<entry, pc, ret, qr_int_str, strict_mode, ver_vars, net_vars, ext_vars>>

\* line 69, called directly
TranscodeReturn ==
    /\ pc = "qis_loop"
    /\ start >= Len(qr_int_str)
    /\ entry = "qr_int_str_to_b64"
    /\ pc' = "done"
    /\ ret' = Return(decoded_chars)
    /\ UNCHANGED <<entry, qr_int_str, start, decoded_chars, strict_mode, ver_vars, net_vars, ext_vars>>

(***************************************************************************)
(* Specification of a direct call of the transcoder on any string over    *)
(* TranscodeAlphabet of length at most MaxStrLen.                          *)
(***************************************************************************)
\* '#', '0', '3', '4', '9', 'a'
TranscodeAlphabet == {35, 48, 51, 52, 57, 97}

InitTranscode ==
    /\ entry = "qr_int_str_to_b64"
    /\ pc = "qis_check_chars"
    /\ ret = NoResult
    /\ qr_int_str \in SeqsUpTo(TranscodeAlphabet, MaxStrLen)
    /\ start = 0
    /\ decoded_chars = <<>>
    /\ strict_mode = FALSE
    /\ qr_data = <<>>
    /\ b64 = <<>>
    /\ fields = <<>>
    /\ NoVerifyState
    /\ NoCallsYet

NextTranscode == CheckChars \/ CheckLen \/ LoopStep \/ TranscodeReturn

SpecTranscode == InitTranscode /\ [][NextTranscode]_vars

Finished == pc \in {"done", "raised"}

IsDigitString(s) == \A i \in 1..Len(s) : s[i] \in 48..57

\* C1: for every even-length string of the characters 0-9 the transcoder
\* returns a string of len(s)/2 characters whose i-th character has code
\* point (two-digit decimal value of the i-th pair) + 45, in input order;
\* "43" gives "X" and "4343" gives "XX".
C1_TranscodeMapsPairs ==
    (Finished /\ entry = "qr_int_str_to_b64"
       /\ IsDigitString(qr_int_str) /\ Len(qr_int_str) % 2 = 0)
    => /\ ret.kind = "return"
       /\ Len(ret.value) * 2 = Len(qr_int_str)
       /\ \A i \in 1..Len(ret.value) :
             ret.value[i] = 10 * (qr_int_str[2 * i - 1] - 48)
                            + (qr_int_str[2 * i] - 48) + 45
       /\ (qr_int_str = <<52, 51>> => ret.value = <<88>>)
       /\ (qr_int_str = <<52, 51, 52, 51>> => ret.value = <<88, 88>>)

C1_Witness ==
    /\ pc = "done"
    /\ qr_int_str = <<52, 51, 52, 51>>
    /\ ret = Return(<<88, 88>>)

\* C2: for an input holding a character outside 0-9, and for an odd-length
\* string of digits, the transcoder raises its input-format error
\* (ValueError) and returns no string.
C2_TranscodeRejects ==
    (Finished /\ entry = "qr_int_str_to_b64"
       /\ (~IsDigitString(qr_int_str) \/ Len(qr_int_str) % 2 = 1))
    => /\ pc = "raised"
       /\ ret.kind = "raise"
       /\ ret.exc = "ValueError"

C2_Witness ==
    /\ pc = "raised"
    /\ qr_int_str = <<48, 51, 57>>
    /\ ret.kind = "raise"

NonDigitsOf(s) == {c \in 0..255 : c \notin 48..57 /\ \E i \in 1..Len(s) : s[i] = c}

\* C3 as stated: a rejection happens before any pair is transcoded, and
\* the error reports the full set of invalid characters and the actual
\* length of the input.
C3_ErrorReportsCharsAndLength ==
    (pc = "raised" /\ entry = "qr_int_str_to_b64")
    => /\ decoded_chars = <<>>
       /\ "invalid_chars" \in DOMAIN ret
       /\ ret.invalid_chars = NonDigitsOf(qr_int_str)
       /\ "str_len" \in DOMAIN ret
       /\ ret.str_len = Len(qr_int_str)

\* C3 amended: a rejection happens before any pair is transcoded; when the
\* input holds a non-digit the error reports every distinct invalid
\* character (and not the length), otherwise (odd-length digits) it
\* reports the actual length of the input.
C3_ErrorReportsCharsOrLength ==
    (pc = "raised" /\ entry = "qr_int_str_to_b64")
    => /\ decoded_chars = <<>>
       /\ start = 0
       /\ IF NonDigitsOf(qr_int_str) # {}
            THEN /\ "invalid_chars" \in DOMAIN ret
                 /\ ret.invalid_chars = NonDigitsOf(qr_int_str)
                 /\ "str_len" \notin DOMAIN ret
            ELSE /\ "str_len" \in DOMAIN ret
                 /\ ret.str_len = Len(qr_int_str)
                 /\ Len(qr_int_str) % 2 = 1

C3_Witness ==
    /\ pc = "raised"
    /\ qr_int_str = <<97, 52, 35>>
    /\ ret.invalid_chars = {35, 97}

(***************************************************************************)
(* Library functions the decode step calls.                                *)
(***************************************************************************)
Raise(e) == [kind |-> "raise", exc |-> e]

\* str.startswith
StartsWith(text, prefix) ==
    /\ Len(text) >= Len(prefix)
    /\ \A i \in 1..Len(prefix) : text[i] = prefix[i]

\* "shc:/"
ShcPrefix == <<115, 104, 99, 58, 47>>

\* Mutant: the prefix is cut off whether or not it is there.
remove_prefix_Always(text) == Slice(text, Len(ShcPrefix), Len(text))

\* remove_prefix(text, "shc:/")
remove_prefix(text) ==
    IF StartsWith(text, ShcPrefix)
      THEN Slice(text, Len(ShcPrefix), Len(text))
      ELSE text

\* str.split(sep): the list of the maximal sep-free pieces, at least one.
RECURSIVE Split(_, _)
Split(s, sep) ==
    IF \A i \in 1..Len(s) : s[i] # sep
      THEN <<s>>
      ELSE LET p == CHOOSE i \in 1..Len(s) :
                       s[i] = sep /\ \A j \in 1..(i - 1) : s[j] # sep
           IN  <<Slice(s, 0, p - 1)>> \o Split(Slice(s, p, Len(s)), sep)

\* sep.join(parts)
RECURSIVE Join(_, _)
Join(parts, sep) ==
    IF parts = <<>> THEN <<>>
    ELSE IF Len(parts) = 1 THEN parts[1]
    ELSE parts[1] \o <<sep>> \o Join(Tail(parts), sep)

\* The Base64 alphabet base64.b64decode accepts with altchars "-_": the
\* standard one, with '-' and '_' translated to '+' and '/'.
B64Alphabet == (65..90) \cup (97..122) \cup (48..57) \cup {43, 45, 47, 95}

B64Val(c) ==
    IF c \in 65..90 THEN c - 65
    ELSE IF c \in 97..122 THEN c - 71
    ELSE IF c \in 48..57 THEN c + 4
    ELSE IF c \in {43, 45} THEN 62
    ELSE 63

\* The bytes of a string of alphabet characters: 6 bits a character, the
\* bits of an incomplete last byte dropped.
B64Bytes(core) ==
    [k \in 1..((Len(core) * 3) \div 4) |->
        LET q  == (k - 1) \div 3
            r  == (k - 1) % 3
            v1 == B64Val(core[4 * q + r + 1])
            v2 == B64Val(core[4 * q + r + 2])
        IN  CASE r = 0 -> v1 * 4 + (v2 \div 16)
              [] r = 1 -> (v1 % 16) * 16 + (v2 \div 4)
              [] r = 2 -> (v1 % 4) * 64 + v2]

\* The text without its trailing '=' characters.
StripPads(text) ==
    LET keep == {i \in 1..Len(text) : text[i] # 61}
    IN  IF keep = {} THEN <<>>
        ELSE Slice(text, 0, CHOOSE i \in keep : \A j \in keep : j <= i)

\* base64.b64decode(text + "==", altchars=b"-_", validate=True).
\* Non-ASCII text is a ValueError.  With the regular-expression validation
\* (strict = FALSE) the text must be alphabet characters only and is
\* rejected when one character is left over after the groups of four.
\* With binascii's strict mode (strict = TRUE) padding may follow whole
\* groups of four only, except the two '=' that complete a group of two.
b64decode_padded(text, strict) ==
    LET core == IF strict THEN StripPads(text) ELSE text
        pads == Len(text) - Len(core)
        n    == Len(core)
    IN  IF \E i \in 1..Len(text) : text[i] > 127
          THEN Raise("ValueError")
        ELSE IF \E i \in 1..n : core[i] \notin B64Alphabet
          THEN Raise("binascii.Error")
        ELSE IF n % 4 = 1
          THEN Raise("binascii.Error")
        ELSE IF strict /\ (n = 0 \/ n % 4 = 3 \/ (n % 4 = 2 /\ pads > 0))
          THEN Raise("binascii.Error")
        ELSE Return(B64Bytes(core))

\* Mutant: no padding is added, so only whole groups of four decode.
b64_decode_NoPadding(text, strict) ==
    IF Len(text) % 4 # 0 THEN Raise("binascii.Error")
    ELSE b64decode_padded(text, strict)

\* b64_decode
b64_decode(text, strict) == b64decode_padded(text, strict)

\* bytes.decode("utf-8") from 0-based offset i on, after the code points acc.
IsCont(x) == x \in 128..191

RECURSIVE Utf8From(_, _, _)
Utf8From(b, i, acc) ==
    IF i >= Len(b) THEN Return(acc)
    ELSE
      LET b1 == b[i + 1]
          b2 == IF i + 2 <= Len(b) THEN b[i + 2] ELSE 0
          b3 == IF i + 3 <= Len(b) THEN b[i + 3] ELSE 0
          b4 == IF i + 4 <= Len(b) THEN b[i + 4] ELSE 0
      IN  IF b1 < 128
            THEN Utf8From(b, i + 1, Append(acc, b1))
          ELSE IF b1 \in 194..223 /\ IsCont(b2)
            THEN Utf8From(b, i + 2, Append(acc, (b1 - 192) * 64 + (b2 - 128)))
          ELSE IF /\ b1 \in 224..239 /\ IsCont(b2) /\ IsCont(b3)
                  /\ (b1 = 224 => b2 >= 160)
                  /\ (b1 = 237 => b2 <= 159)
            THEN Utf8From(b, i + 3,
                   Append(acc, (b1 - 224) * 4096 + (b2 - 128) * 64 + (b3 - 128)))
          ELSE IF /\ b1 \in 240..244 /\ IsCont(b2) /\ IsCont(b3) /\ IsCont(b4)
                  /\ (b1 = 240 => b2 >= 144)
                  /\ (b1 = 244 => b2 <= 143)
            THEN Utf8From(b, i + 4,
                   Append(acc, (b1 - 240) * 262144 + (b2 - 128) * 4096
                               + (b3 - 128) * 64 + (b4 - 128)))
          ELSE Raise("UnicodeDecodeError")

utf8_decode(b) == Utf8From(b, 0, <<>>)

\* zlib.decompress(data, -15): raw inflate.  Stored blocks (BTYPE 00) are
\* inflated as zlib does; a reserved block type (BTYPE 11), bad stored
\* lengths and a stream that ends before its final block are zlib.error;
\* bytes after the final block are ignored.  Huffman-coded blocks (BTYPE
\* 01, 10) are outside the model: their outcome is "unmodelled" and the
\* checked inputs hold none.
RECURSIVE InflateFrom(_, _, _)
InflateFrom(data, i, acc) ==
    IF i >= Len(data) THEN Raise("zlib.error")
    ELSE
      LET hdr    == data[i + 1]
          bfinal == hdr % 2
          btype  == (hdr \div 2) % 4
      IN  IF btype = 3 THEN Raise("zlib.error")
          ELSE IF btype # 0 THEN [kind |-> "unmodelled"]
          ELSE IF i + 5 > Len(data) THEN Raise("zlib.error")
          ELSE
            LET len  == data[i + 2] + 256 * data[i + 3]
                nlen == data[i + 4] + 256 * data[i + 5]
            IN  IF len + nlen # 65535 THEN Raise("zlib.error")
                ELSE IF i + 5 + len > Len(data) THEN Raise("zlib.error")
                ELSE IF bfinal = 1
                  THEN Return(acc \o Slice(data, i + 5, i + 5 + len))
                ELSE InflateFrom(data, i + 5 + len,
                                 acc \o Slice(data, i + 5, i + 5 + len))

zlib_decompress_raw(data) == InflateFrom(data, 0, <<>>)

(***************************************************************************)
(* b64_to_fields and extract_jws_data_from_qr_data (the splitter and the   *)
(* decode operation).                                                      *)
(***************************************************************************)
\* b64_to_fields: the three statements in order; the element raws[k] is
\* read, and may be missing, only when its statement is reached.
b64_to_fields(text, strict) ==
    LET raws   == Split(text, 46)
        hbytes == b64_decode(raws[1], strict)
        header == IF hbytes.kind = "return"
                    THEN utf8_decode(hbytes.value) ELSE hbytes
    IN  IF header.kind # "return" THEN header
        ELSE IF Len(raws) < 2 THEN Raise("IndexError")
        ELSE
          LET pbytes  == b64_decode(raws[2], strict)
              pzip    == IF pbytes.kind = "return"
                           THEN zlib_decompress_raw(pbytes.value) ELSE pbytes
              payload == IF pzip.kind = "return"
                           THEN utf8_decode(pzip.value) ELSE pzip
          IN  IF payload.kind # "return" THEN payload
              ELSE IF Len(raws) < 3 THEN Raise("IndexError")
              ELSE Return(<<header.value, payload.value, raws[3]>>)

\* Mutant: the slice keeps the signature segment too.
SignedDoc_WithSignature(text) == Join(Slice(Split(text, 46), 0, 3), 46)

\* ".".join(b64.split(".")[0:2])
SignedDoc(text) == Join(Slice(Split(text, 46), 0, 2), 46)

\* line 153
RemovePrefix ==
    /\ pc = "ext_remove_prefix"
    /\ qr_int_str' = remove_prefix(qr_data)
    /\ pc' = "qis_check_chars"
    /\ UNCHANGED <<entry, ret, start, decoded_chars, strict_mode, ver_vars, net_vars, ext_vars>>

\* line 69 when called from line 154: the result is bound to b64
TranscodeReturnToExtract ==
    /\ pc = "qis_loop"
    /\ start >= Len(qr_int_str)
    /\ entry = "extract_jws_data_from_qr_data"
    /\ b64' = decoded_chars
    /\ pc' = "ext_b64_to_fields"
    /\ UNCHANGED <<entry, ret, qis_vars, strict_mode, ver_vars, net_vars, qr_data, fields>>

\* line 155
B64ToFields ==
    /\ pc = "ext_b64_to_fields"
    /\ LET r == b64_to_fields(b64, strict_mode)
       IN  IF r.kind = "return"
             THEN /\ fields' = r.value
                  /\ pc' = "ext_signed_doc"
                  /\ ret' = ret
             ELSE /\ fields' = fields
                  /\ pc' = "raised"
                  /\ ret' = r
    /\ UNCHANGED <<entry, qis_vars, strict_mode, ver_vars, net_vars, qr_data, b64>>

\* lines 156-157
ExtractReturn ==
    /\ pc = "ext_signed_doc"
    /\ ret' = Return(<<SignedDoc(b64), fields[1], fields[2], fields[3]>>)
    /\ pc' = "done"
    /\ UNCHANGED <<entry, qis_vars, strict_mode, ver_vars, net_vars, ext_vars>>

(***************************************************************************)
(* Specification of a call of extract_jws_data_from_qr_data.  Its input is *)
(* the QR encoding of up to MaxSegments segments joined by dots, with or   *)
(* without the "shc:/" prefix, or one of a few strings that are not QR     *)
(* encodings; the interpreter validates Base64 one way or the other.       *)
(***************************************************************************)
\* The digit pair of each character (code points 45..144), in order.
QrEncode(text) ==
    [i \in 1..(2 * Len(text)) |->
        LET c == text[(i + 1) \div 2] - 45
        IN  IF i % 2 = 1 THEN 48 + (c \div 10) ELSE 48 + (c % 10)]

\* Header segments: {"a":1}; {}; x; the byte FF; one character; a character
\* outside the alphabet; a non-ASCII character; padded; empty.
HeaderSegments ==
    { <<101, 121, 74, 104, 73, 106, 111, 120, 102, 81>>,
      <<101, 51, 48>>,
      <<101, 65>>,
      <<95, 119>>,
      <<101>>,
      <<101, 58>>,
      <<101, 144>>,
      <<101, 65, 61, 61>>,
      <<>> }

\* Payload segments, raw-deflated as one stored block: {}; x; the byte FF;
\* a reserved block type; a truncated block; one character.
PayloadSegments ==
    { <<65, 81, 73, 65, 95, 102, 57, 55, 102, 81>>,
      <<65, 81, 69, 65, 95, 118, 57, 52>>,
      <<65, 81, 69, 65, 95, 118, 95, 95>>,
      <<66, 119>>,
      <<65, 81, 73, 65, 95, 102, 57, 55>>,
      <<101>> }

\* Signature segments (and any segment after the third): AQ; empty.
SignatureSegments == { <<65, 81>>, <<>> }

SegmentLists ==
    UNION { {s \in [1..k -> HeaderSegments \cup PayloadSegments
                            \cup SignatureSegments] :
               /\ s[1] \in HeaderSegments
               /\ k >= 2 => s[2] \in PayloadSegments
               /\ \A j \in 3..k : s[j] \in SignatureSegments}
            : k \in 1..MaxSegments }

\* "12a", "123", "shc:/1", "shc:/1-", "shc:/shc:/56"
RawInputs ==
    { <<49, 50, 97>>, <<49, 50, 51>>, ShcPrefix \o <<49>>,
      ShcPrefix \o <<49, 45>>, ShcPrefix \o ShcPrefix \o <<53, 54>> }

DecodeInputs ==
    {QrEncode(Join(s, 46)) : s \in SegmentLists}
    \cup {ShcPrefix \o QrEncode(Join(s, 46)) : s \in SegmentLists}
    \cup RawInputs

InitDecode ==
    /\ entry = "extract_jws_data_from_qr_data"
    /\ pc = "ext_remove_prefix"
    /\ ret = NoResult
    /\ qr_data \in DecodeInputs
    /\ strict_mode \in BOOLEAN
    /\ qr_int_str = <<>>
    /\ start = 0
    /\ decoded_chars = <<>>
    /\ b64 = <<>>
    /\ fields = <<>>
    /\ NoVerifyState
    /\ NoCallsYet

NextDecode ==
    \/ RemovePrefix
    \/ CheckChars
    \/ CheckLen
    \/ LoopStep
    \/ TranscodeReturnToExtract
    \/ B64ToFields
    \/ ExtractReturn

SpecDecode == InitDecode /\ [][NextDecode]_vars

DecodeDone == pc = "done" /\ entry = "extract_jws_data_from_qr_data"

\* The digits of the input: what follows the scheme prefix, if it is there.
DigitsOf(data) ==
    IF Len(data) >= 5 /\ data[1] = 115 /\ data[2] = 104 /\ data[3] = 99
       /\ data[4] = 58 /\ data[5] = 47
      THEN [i \in 1..(Len(data) - 5) |-> data[i + 5]]
      ELSE data

\* The positions of the dots of a string.
DotsOf(text) == {i \in 1..Len(text) : text[i] = 46}

\* C4: when decode succeeds, the signed document is the header segment, a
\* dot and the payload segment of the transcoded compact serialization,
\* character for character: all of it before its second dot, so still
\* Base64 text, with no signature segment and no trailing dot.
C4_SignedDocIsHeaderDotPayload ==
    DecodeDone =>
      LET doc    == ret.value[1]
          digits == DigitsOf(qr_data)
          dots   == DotsOf(b64)
      IN  /\ Len(b64) * 2 = Len(digits)
          /\ \A i \in 1..Len(b64) :
                b64[i] = 10 * (digits[2 * i - 1] - 48) + (digits[2 * i] - 48) + 45
          /\ Cardinality(dots) >= 2
          /\ \E p1, p2 \in dots :
                /\ p1 < p2
                /\ \A q \in dots : q = p1 \/ q >= p2
                /\ Len(doc) = p2 - 1
                /\ \A i \in 1..Len(doc) : doc[i] = b64[i]
                /\ DotsOf(doc) = {p1}

\* eyJhIjoxfQ.AQIA_f97fQ.AQ decoded: the signed document is eyJhIjoxfQ.AQIA_f97fQ
C4_Witness ==
    /\ DecodeDone
    /\ strict_mode
    /\ b64 = <<101, 121, 74, 104, 73, 106, 111, 120, 102, 81, 46,
               65, 81, 73, 65, 95, 102, 57, 55, 102, 81, 46, 65, 81>>
    /\ ret.value[1] = <<101, 121, 74, 104, 73, 106, 111, 120, 102, 81, 46,
                        65, 81, 73, 65, 95, 102, 57, 55, 102, 81>>
    /\ ret.value[2] = <<123, 34, 97, 34, 58, 49, 125>>
    /\ ret.value[3] = <<123, 125>>

\* A text json.loads certainly rejects: after leading whitespace nothing
\* is left, or what is left starts no JSON value.
JsonValueStarts == {123, 91, 34, 45, 116, 102, 110, 78, 73} \cup (48..57)

NotJson(text) ==
    LET rest == {i \in 1..Len(text) : text[i] \notin {32, 9, 10, 13}}
    IN  \/ rest = {}
        \/ text[CHOOSE i \in rest : \A j \in rest : i <= j] \notin JsonValueStarts

\* The decoded text of a header (inflate = FALSE) or payload (inflate =
\* TRUE) segment, or the first failure on the way to it.
SegmentText(seg, strict, inflate) ==
    LET bytes == b64_decode(seg, strict)
        plain == IF bytes.kind = "return" /\ inflate
                   THEN zlib_decompress_raw(bytes.value) ELSE bytes
    IN  IF plain.kind = "return" THEN utf8_decode(plain.value) ELSE plain

SegmentDefect(seg, strict, inflate) ==
    LET text == SegmentText(seg, strict, inflate)
    IN  text.kind # "return" \/ NotJson(text.value)

\* C9: malformed Base64, invalid UTF-8, invalid JSON and a decompression
\* failure in the header or payload segment each make decode raise, and
\* the error names the segment that failed: the header when the header is
\* defective, the payload when the header is sound and the payload is not.
C9_DecodeErrorNamesSegment ==
    (Finished /\ entry = "extract_jws_data_from_qr_data"
       /\ IsDigitString(DigitsOf(qr_data)) /\ Len(DigitsOf(qr_data)) % 2 = 0)
    => LET raws == Split(b64, 46)
           hbad == SegmentDefect(raws[1], strict_mode, FALSE)
           pbad == Len(raws) >= 2 /\ SegmentDefect(raws[2], strict_mode, TRUE)
       IN  /\ hbad => /\ ret.kind = "raise"
                      /\ "segment" \in DOMAIN ret
                      /\ ret.segment = "header"
           /\ (~hbad /\ pbad) => /\ ret.kind = "raise"
                                 /\ "segment" \in DOMAIN ret
                                 /\ ret.segment = "payload"

\* No checked input leaves the modelled part of raw inflate.
InflateModelled ==
    \A seg \in PayloadSegments :
        \A strict \in BOOLEAN :
            SegmentText(seg, strict, TRUE).kind \in {"return", "raise"}

(***************************************************************************)
(* get_public_key_from_keyset (key resolution).                            *)
(*                                                                         *)
(* A JSON text is the value json.loads gives for it, or a text that does   *)
(* not parse; a JSON object is a function on its member names.             *)
(***************************************************************************)
NotJsonText == [parses |-> FALSE]
JsonText(v) == [parses |-> TRUE, value |-> v]
EmptyObject == [m \in {} |-> 0]

\* json.loads
json_loads(text) ==
    IF text.parses THEN Return(text.value) ELSE Raise("JSONDecodeError")

\* Mutant: a record that carries a private-key component is accepted.
KeyMatches_IgnoresD(rec, id) ==
    /\ rec.kid = id
    /\ rec.kty = "EC"
    /\ rec.use = "sig"
    /\ rec.alg = "ES256"
    /\ rec.crv = "P-256"

\* lines 123-135: the record is returned, not skipped
KeyMatches(rec, id) ==
    /\ rec.kid = id
    /\ ~(rec.kty # "EC")
    /\ ~(rec.use # "sig")
    /\ ~(rec.alg # "ES256")
    /\ ~(rec.crv # "P-256")
    /\ ~("d" \in DOMAIN rec)

\* Mutant: with no match the first record of the collection is used.
NoKeyFound_FirstKey(keys, id) ==
    IF keys # <<>> THEN Return(keys[1])
    ELSE [kind |-> "raise", exc |-> "KeyError",
          text |-> "No public key with specified key-ID found.", kid |-> id]

\* line 136
NoKeyFound(keys, id) ==
    [kind |-> "raise", exc |-> "KeyError",
     text |-> "No public key with specified key-ID found.", kid |-> id]

\* lines 122-136: the loop from the i-th record on
RECURSIVE ScanKeys(_, _, _)
ScanKeys(keys, id, i) ==
    IF i > Len(keys) THEN NoKeyFound(keys, id)
    ELSE IF KeyMatches(keys[i], id) THEN Return(keys[i])
    ELSE ScanKeys(keys, id, i + 1)

get_public_key_from_keyset(pk_json_str, id) ==
    LET pk_dict == json_loads(pk_json_str)
    IN  IF pk_dict.kind # "return" THEN pk_dict
        ELSE IF ~("keys" \in DOMAIN pk_dict.value) THEN Raise("AssertionError")
        ELSE ScanKeys(pk_dict.value.keys, id, 1)

\* line 176, and the function called directly
SelectKey ==
    /\ pc = "pk_select"
    /\ LET r == get_public_key_from_keyset(public_keyset_json, kid)
       IN  IF r.kind # "return"
             THEN pc' = "raised" /\ ret' = r /\ pk' = pk
           ELSE IF entry = "get_public_key_from_keyset"
             THEN pc' = "done" /\ ret' = r /\ pk' = pk
           ELSE pc' = "ver_decode_key" /\ ret' = ret /\ pk' = r.value
    /\ UNCHANGED <<entry, qis_vars, strict_mode, ext_vars, verify_args, kid,
                   pk_url, public_keyset_json, pk_point, rs, net_vars>>

(***************************************************************************)
(* Specification of a direct call of get_public_key_from_keyset on a key   *)
(* set of at most MaxKeys records (or a body that is no key set).          *)
(***************************************************************************)
\* Base64 of the x coordinate of the P-256 base point G: axfR8uEsQkf4vOblY6RA8ncDfYEt6zOg9KE5RdiYwpY
GxText ==
    << 97, 120, 102, 82, 56, 117, 69, 115, 81, 107, 102, 52,
       118, 79, 98, 108, 89, 54, 82, 65, 56, 110, 99, 68,
       102, 89, 69, 116, 54, 122, 79, 103, 57, 75, 69, 53,
       82, 100, 105, 89, 119, 112, 89 >>
\* Base64 of the y coordinate of G: T-NC4v4af5uO5-tKfA-eFivOM1drMV7Oy7ZAaDe_UfU
GyText ==
    << 84, 45, 78, 67, 52, 118, 52, 97, 102, 53, 117, 79,
       53, 45, 116, 75, 102, 65, 45, 101, 70, 105, 118, 79,
       77, 49, 100, 114, 77, 86, 55, 79, 121, 55, 90, 65,
       97, 68, 101, 95, 85, 102, 85 >>
\* Base64 of the x coordinate of 2G: fPJ7GI0DT36KUjgDBLUaw8CJaeJ38hs1pgtI_EdmmXg
G2xText ==
    << 102, 80, 74, 55, 71, 73, 48, 68, 84, 51, 54, 75,
       85, 106, 103, 68, 66, 76, 85, 97, 119, 56, 67, 74,
       97, 101, 74, 51, 56, 104, 115, 49, 112, 103, 116, 73,
       95, 69, 100, 109, 109, 88, 103 >>
\* Base64 of the y coordinate of 2G: B3dVENuO0EApPZrGn3Qw27p9reY86YIpngS3nSJ4c9E
G2yText ==
    << 66, 51, 100, 86, 69, 78, 117, 79, 48, 69, 65, 112,
       80, 90, 114, 71, 110, 51, 81, 119, 50, 55, 112, 57,
       114, 101, 89, 56, 54, 89, 73, 112, 110, 103, 83, 51,
       110, 83, 74, 52, 99, 57, 69 >>

KeyRecord(id, kty, use, alg, crv, x, y) ==
    [kid |-> id, kty |-> kty, use |-> use, alg |-> alg, crv |-> crv,
     x |-> x, y |-> y]

WithD(rec) ==
    [f \in DOMAIN rec \cup {"d"} |-> IF f = "d" THEN <<65, 81>> ELSE rec[f]]

\* For each key id: a sound record for the point G, one for 2G, and one
\* record for each way of failing a selection condition.
KeyRecordsOf(id) ==
    { KeyRecord(id, "EC", "sig", "ES256", "P-256", GxText, GyText),
      KeyRecord(id, "EC", "sig", "ES256", "P-256", G2xText, G2yText),
      KeyRecord(id, "RSA", "sig", "ES256", "P-256", GxText, GyText),
      KeyRecord(id, "EC", "enc", "ES256", "P-256", GxText, GyText),
      KeyRecord(id, "EC", "sig", "ES384", "P-256", GxText, GyText),
      KeyRecord(id, "EC", "sig", "ES256", "P-384", GxText, GyText),
      WithD(KeyRecord(id, "EC", "sig", "ES256", "P-256", GxText, GyText)) }

KeyRecords == KeyRecordsOf("k1") \cup KeyRecordsOf("k2")

KeysetBodies ==
    {NotJsonText, JsonText(EmptyObject)}
    \cup {JsonText([keys |-> ks]) : ks \in SeqsUpTo(KeyRecords, MaxKeys)}

InitKeys ==
    /\ entry = "get_public_key_from_keyset"
    /\ pc = "pk_select"
    /\ ret = NoResult
    /\ public_keyset_json \in KeysetBodies
    /\ kid \in {"k1", "k2", "k3"}
    /\ verify_args = <<>>
    /\ pk_url = ""
    /\ pk = <<>>
    /\ pk_point = <<>>
    /\ rs = <<>>
    /\ NoCallsYet
    /\ strict_mode = FALSE
    /\ qr_data = <<>>
    /\ qr_int_str = <<>>
    /\ start = 0
    /\ decoded_chars = <<>>
    /\ b64 = <<>>
    /\ fields = <<>>

NextKeys == SelectKey

SpecKeys == InitKeys /\ [][NextKeys]_vars

KeysCallFinished == Finished /\ entry = "get_public_key_from_keyset"

HasKeys(text) == text.parses /\ "keys" \in DOMAIN text.value

\* The positions of the records that satisfy every selection condition.
Selectable(keys, id) ==
    {i \in 1..Len(keys) :
        /\ keys[i].kid = id
        /\ keys[i].kty = "EC"
        /\ keys[i].use = "sig"
        /\ keys[i].alg = "ES256"
        /\ keys[i].crv = "P-256"
        /\ "d" \notin DOMAIN keys[i]}

C6_KeyNotFoundIsRaised ==
    KeysCallFinished =>
      /\ (HasKeys(public_keyset_json)
          /\ Selectable(public_keyset_json.value.keys, kid) = {})
         => /\ ret.kind = "raise"
            /\ ret.exc = "KeyError"
            /\ ret.kid = kid
      /\ ~public_keyset_json.parses
         => /\ ret.kind = "raise"
            /\ ret.exc = "JSONDecodeError"
      /\ (public_keyset_json.parses /\ ~HasKeys(public_keyset_json))
         => /\ ret.kind = "raise"
            /\ ret.exc = "AssertionError"

\* Two records with the requested kid, one with use enc, one with a d.
C6_Witness ==
    /\ KeysCallFinished
    /\ HasKeys(public_keyset_json)
    /\ kid = "k2"
    /\ public_keyset_json.value.keys =
          << KeyRecord("k2", "EC", "enc", "ES256", "P-256", GxText, GyText),
             WithD(KeyRecord("k2", "EC", "sig", "ES256", "P-256", GxText, GyText)) >>
    /\ ret.kind = "raise"
    /\ ret.exc = "KeyError"

(***************************************************************************)
(* decode_sig (the signature codec).                                       *)
(***************************************************************************)
\* decode_sig: r = sig[0:32], s = sig[32:64]
decode_sig(b64_sig, strict) ==
    LET sig == b64_decode(b64_sig, strict)
    IN  IF sig.kind # "return" THEN sig
        ELSE Return(<<Slice(sig.value, 0, 32), Slice(sig.value, 32, 64)>>)

\* line 181, and the function called directly
DecodeSig ==
    /\ pc = "sig_decode"
    /\ LET r == decode_sig(verify_args.sig, strict_mode)
       IN  IF r.kind # "return"
             THEN pc' = "raised" /\ ret' = r /\ rs' = rs
           ELSE IF entry = "decode_sig"
             THEN pc' = "done" /\ ret' = r /\ rs' = r.value
           ELSE pc' = "ver_ecdsa" /\ ret' = ret /\ rs' = r.value
    /\ UNCHANGED <<entry, qis_vars, strict_mode, ext_vars, verify_args, kid,
                   pk_url, public_keyset_json, pk, pk_point, net_vars>>

(***************************************************************************)
(* Specification of a direct call of decode_sig on a run of at most        *)
(* MaxSigChars equal characters: 'A' (zero bits), '_' (one bits), '=' or   *)
(* ':' (outside the alphabet).                                             *)
(***************************************************************************)
SigTexts ==
    {[i \in 1..n |-> c] : n \in 0..MaxSigChars, c \in {65, 95, 61, 58}}

InitSig ==
    /\ entry = "decode_sig"
    /\ pc = "sig_decode"
    /\ ret = NoResult
    /\ verify_args \in {[sig |-> text] : text \in SigTexts}
    /\ strict_mode \in BOOLEAN
    /\ kid = ""
    /\ pk_url = ""
    /\ public_keyset_json = NotJsonText
    /\ pk = <<>>
    /\ pk_point = <<>>
    /\ rs = <<>>
    /\ NoCallsYet
    /\ qr_data = <<>>
    /\ qr_int_str = <<>>
    /\ start = 0
    /\ decoded_chars = <<>>
    /\ b64 = <<>>
    /\ fields = <<>>

NextSig == DecodeSig

SpecSig == InitSig /\ [][NextSig]_vars

\* C7: decode_sig raises whenever the Base64-decoded signature is not
\* exactly 64 bytes long, so every (R, S) it returns is two 32-byte values.
C7_WrongLengthSignatureRejected ==
    (Finished /\ entry = "decode_sig")
    => LET sig == b64_decode(verify_args.sig, strict_mode)
       IN  /\ (sig.kind = "return" /\ Len(sig.value) # 64) => ret.kind = "raise"
           /\ ret.kind = "return" =>
                 /\ Len(ret.value[1]) = 32
                 /\ Len(ret.value[2]) = 32

(***************************************************************************)
(* validate_jws_data (verify) and the functions it calls.                  *)
(***************************************************************************)
\* Mutant: the path is appended without ".well-known".
get_public_key_url_NoWellKnown(payload_json_str) ==
    LET payload_json == json_loads(payload_json_str)
    IN  IF payload_json.kind # "return" THEN payload_json
        ELSE IF "iss" \notin DOMAIN payload_json.value
          THEN [kind |-> "raise", exc |-> "KeyError", key |-> "iss"]
        ELSE Return(payload_json.value.iss \o "/jwks.json")

\* get_public_key_url
get_public_key_url(payload_json_str) ==
    LET payload_json == json_loads(payload_json_str)
    IN  IF payload_json.kind # "return" THEN payload_json
        ELSE IF "iss" \notin DOMAIN payload_json.value
          THEN [kind |-> "raise", exc |-> "KeyError", key |-> "iss"]
        ELSE Return(payload_json.value.iss \o "/.well-known/jwks.json")

\* get_public_keyset_json, given what the GET of pk_url answers: the body,
\* or a transport failure.
get_public_keyset_json(response) ==
    IF response.ok THEN Return(response.body) ELSE Raise("URLError")

\* int.from_bytes(b, byteorder="big"): a natural number is kept as its
\* big-endian bytes without leading zeros (zero is the empty sequence).
IntFromBytes(b) ==
    LET nz == {i \in 1..Len(b) : b[i] # 0}
    IN  IF nz = {} THEN <<>>
        ELSE SubSeq(b, CHOOSE i \in nz : \A j \in nz : i <= j, Len(b))

\* a > b for two such numbers
BigGT(a, b) ==
    \/ Len(a) > Len(b)
    \/ /\ Len(a) = Len(b)
       /\ \E i \in 1..Len(a) :
             /\ a[i] > b[i]
             /\ \A j \in 1..(i - 1) : a[j] = b[j]

\* The signed document eyJhIjoxfQ.AQIA_f97fQ
Doc1 ==
    << 101, 121, 74, 104, 73, 106, 111, 120, 102, 81, 46, 65,
       81, 73, 65, 95, 102, 57, 55, 102, 81 >>

\* The signed document eA.AQIA_f97fQ
Doc2 ==
    << 101, 65, 46, 65, 81, 73, 65, 95, 102, 57, 55, 102,
       81 >>

\* An ES256 signature of Doc1 under the key whose public point is G:
\* -evkZBR8wQLZIyTQmdknwaUOQtV6CKEW_-wKKYGdjGULMjUxASI9xPAnISbOJTfYKbZ9w6oUQty2jB8XJg_0hg
SigGoodText ==
    << 45, 101, 118, 107, 90, 66, 82, 56, 119, 81, 76, 90,
       73, 121, 84, 81, 109, 100, 107, 110, 119, 97, 85, 79,
       81, 116, 86, 54, 67, 75, 69, 87, 95, 45, 119, 75,
       75, 89, 71, 100, 106, 71, 85, 76, 77, 106, 85, 120,
       65, 83, 73, 57, 120, 80, 65, 110, 73, 83, 98, 79,
       74, 84, 102, 89, 75, 98, 90, 57, 119, 54, 111, 85,
       81, 116, 121, 50, 106, 66, 56, 88, 74, 103, 95, 48,
       104, 103 >>

\* The order of the base point of P-256 (curve.q), big-endian.
CurveOrderQ ==
    << 255, 255, 255, 255, 0, 0, 0, 0, 255, 255, 255, 255,
       255, 255, 255, 255, 188, 230, 250, 173, 167, 23, 158, 132,
       243, 185, 202, 194, 252, 99, 37, 81 >>

BytesOf(text) == IntFromBytes(B64Bytes(text))

\* curve.is_point_on_curve for the coordinates the checked key sets hold:
\* G and 2G are on P-256, the mixed pairs (x of one, y of the other) are not.
OnCurveP256(point) ==
    point \in { <<BytesOf(GxText), BytesOf(GyText)>>,
                <<BytesOf(G2xText), BytesOf(G2yText)>> }

\* Whether the ECDSA equation holds, for in-range (r, s), the documents and
\* the on-curve keys of the checked calls: SigGoodText signs Doc1 under G
\* and nothing else verifies.
EcdsaEquationHolds(r, s, doc, point) ==
    /\ doc = Doc1
    /\ point = <<BytesOf(GxText), BytesOf(GyText)>>
    /\ r = IntFromBytes(Slice(B64Bytes(SigGoodText), 0, 32))
    /\ s = IntFromBytes(Slice(B64Bytes(SigGoodText), 32, 64))

\* ecdsa.verify((r_int, s_int), signed_doc, Point(pk_x, pk_y)) of
\* fastecdsa: Point() raises ValueError for coordinates off the curve, and
\* verify raises EcdsaError for r or s outside 1..q.
ecdsa_verify(r, s, doc, point) ==
    IF ~OnCurveP256(point)
      THEN [kind |-> "raise", exc |-> "ValueError",
            text |-> "coordinates are not on curve"]
    ELSE IF BigGT(r, CurveOrderQ) \/ r = <<>>
      THEN [kind |-> "raise", exc |-> "EcdsaError", text |-> "Invalid Signature: r"]
    ELSE IF BigGT(s, CurveOrderQ) \/ s = <<>>
      THEN [kind |-> "raise", exc |-> "EcdsaError", text |-> "Invalid Signature: s"]
    ELSE Return(EcdsaEquationHolds(r, s, doc, point))

\* lines 172-173
VerifyReadKid ==
    /\ pc = "ver_header"
    /\ LET header_dict == json_loads(verify_args.header_json)
       IN  IF header_dict.kind # "return"
             THEN pc' = "raised" /\ ret' = header_dict /\ kid' = kid
           ELSE IF "kid" \notin DOMAIN header_dict.value
             THEN /\ pc' = "raised"
                  /\ ret' = [kind |-> "raise", exc |-> "KeyError", key |-> "kid"]
                  /\ kid' = kid
           ELSE pc' = "ver_url" /\ ret' = ret /\ kid' = header_dict.value.kid
    /\ UNCHANGED <<entry, qis_vars, strict_mode, ext_vars, verify_args,
                   pk_url, public_keyset_json, pk, pk_point, rs, net_vars>>

\* line 174
VerifyKeyUrl ==
    /\ pc = "ver_url"
    /\ LET r == get_public_key_url(verify_args.payload_json)
       IN  IF r.kind # "return"
             THEN pc' = "raised" /\ ret' = r /\ pk_url' = pk_url
             ELSE pc' = "ver_fetch" /\ ret' = ret /\ pk_url' = r.value
    /\ UNCHANGED <<entry, qis_vars, strict_mode, ext_vars, verify_args, kid,
                   public_keyset_json, pk, pk_point, rs, net_vars>>

\* A key set of one sound record for the point (x, y).
OneKey(id, x, y) ==
    [ok |-> TRUE,
     body |-> JsonText([keys |-> <<KeyRecord(id, "EC", "sig", "ES256", "P-256", x, y)>>])]

\* What a GET may answer: a transport failure, a body that is not JSON, a
\* body without "keys", or a key set.
Responses ==
    { [ok |-> FALSE],
      [ok |-> TRUE, body |-> NotJsonText],
      [ok |-> TRUE, body |-> JsonText(EmptyObject)],
      OneKey("k1", GxText, GyText),
      OneKey("k1", G2xText, G2yText),
      OneKey("k1", GxText, G2yText),
      OneKey("k2", GxText, GyText) }

\* line 175: the one place a request is issued (urllib.request.urlopen)
VerifyFetch ==
    /\ pc = "ver_fetch"
    /\ \E response \in Responses :
          /\ http_log' = Append(http_log, [url |-> pk_url, response |-> response])
          /\ LET r == get_public_keyset_json(response)
             IN  IF r.kind # "return"
                   THEN /\ pc' = "raised"
                        /\ ret' = r
                        /\ public_keyset_json' = public_keyset_json
                   ELSE /\ pc' = "pk_select"
                        /\ ret' = ret
                        /\ public_keyset_json' = r.value
    /\ UNCHANGED <<entry, qis_vars, strict_mode, ext_vars, verify_args, kid,
                   pk_url, pk, pk_point, rs, log_mark, calls>>

\* lines 177-180
VerifyDecodeKey ==
    /\ pc = "ver_decode_key"
    /\ LET x == b64_decode(pk.x, strict_mode)
           y == b64_decode(pk.y, strict_mode)
       IN  IF x.kind # "return"
             THEN pc' = "raised" /\ ret' = x /\ pk_point' = pk_point
           ELSE IF y.kind # "return"
             THEN pc' = "raised" /\ ret' = y /\ pk_point' = pk_point
           ELSE /\ pc' = "sig_decode"
                /\ ret' = ret
                /\ pk_point' = <<IntFromBytes(x.value), IntFromBytes(y.value)>>
    /\ UNCHANGED <<entry, qis_vars, strict_mode, ext_vars, verify_args, kid,
                   pk_url, public_keyset_json, pk, rs, net_vars>>

\* lines 182-184
VerifyEcdsa ==
    /\ pc = "ver_ecdsa"
    /\ ret' = ecdsa_verify(IntFromBytes(rs[1]), IntFromBytes(rs[2]),
                           verify_args.signed_doc, pk_point)
    /\ pc' = IF ret'.kind = "return" THEN "done" ELSE "raised"
    /\ UNCHANGED <<entry, qis_vars, strict_mode, ext_vars, ver_vars, net_vars>>

(***************************************************************************)
(* Specification of a session: up to MaxCalls calls, one after the other,  *)
(* of decode (extract_jws_data_from_qr_data) and verify                    *)
(* (validate_jws_data), against a server that may answer anything in       *)
(* Responses.  http_log records every request issued; log_mark is its      *)
(* length when the current call began.                                     *)
(***************************************************************************)
Iss1 == "https://example.org/issuer"
Iss2 == "https://spec.smarthealth.cards/examples/issuer"

\* 86 characters 'A': 64 zero bytes, so r = s = 0.
SigZeroText == [i \in 1..86 |-> 65]

\* "AAAA": 3 bytes.
SigShortText == <<65, 65, 65, 65>>

VerifyArgs(h, p, d, s) ==
    [header_json |-> h, payload_json |-> p, signed_doc |-> d, sig |-> s]

VerifyInputs ==
    LET k1  == JsonText([kid |-> "k1"])
        i1  == JsonText([iss |-> Iss1])
        i2  == JsonText([iss |-> Iss2])
    IN  { VerifyArgs(NotJsonText, i1, Doc1, SigGoodText),
          VerifyArgs(JsonText(EmptyObject), i1, Doc1, SigGoodText),
          VerifyArgs(k1, NotJsonText, Doc1, SigGoodText),
          VerifyArgs(k1, JsonText(EmptyObject), Doc1, SigGoodText),
          VerifyArgs(k1, i1, Doc1, SigGoodText),
          VerifyArgs(k1, i2, Doc2, SigGoodText),
          VerifyArgs(k1, i1, Doc1, SigZeroText),
          VerifyArgs(k1, i1, Doc1, SigShortText) }

SessionDecodeInputs ==
    { ShcPrefix \o QrEncode(Doc2 \o <<46, 65, 81>>),
      QrEncode(<<101, 65, 46, 65, 81, 46, 65, 81>>),
      <<49, 50, 97>> }

CallMayBegin == pc \in {"idle", "done", "raised"} /\ calls < MaxCalls

\* a call of extract_jws_data_from_qr_data(qr_data)
BeginExtract ==
    /\ CallMayBegin
    /\ entry' = "extract_jws_data_from_qr_data"
    /\ pc' = "ext_remove_prefix"
    /\ ret' = NoResult
    /\ qr_data' \in SessionDecodeInputs
    /\ qr_int_str' = <<>>
    /\ start' = 0
    /\ decoded_chars' = <<>>
    /\ b64' = <<>>
    /\ fields' = <<>>
    /\ verify_args' = <<>>
    /\ kid' = ""
    /\ pk_url' = ""
    /\ public_keyset_json' = NotJsonText
    /\ pk' = <<>>
    /\ pk_point' = <<>>
    /\ rs' = <<>>
    /\ log_mark' = Len(http_log)
    /\ calls' = calls + 1
    /\ UNCHANGED <<strict_mode, http_log>>

\* a call of validate_jws_data(signed_doc, header_json, payload_json, sig)
BeginVerify ==
    /\ CallMayBegin
    /\ entry' = "validate_jws_data"
    /\ pc' = "ver_header"
    /\ ret' = NoResult
    /\ verify_args' \in VerifyInputs
    /\ qr_data' = <<>>
    /\ qr_int_str' = <<>>
    /\ start' = 0
    /\ decoded_chars' = <<>>
    /\ b64' = <<>>
    /\ fields' = <<>>
    /\ kid' = ""
    /\ pk_url' = ""
    /\ public_keyset_json' = NotJsonText
    /\ pk' = <<>>
    /\ pk_point' = <<>>
    /\ rs' = <<>>
    /\ log_mark' = Len(http_log)
    /\ calls' = calls + 1
    /\ UNCHANGED <<strict_mode, http_log>>

InitVerify ==
    /\ entry = ""
    /\ pc = "idle"
    /\ ret = NoResult
    /\ strict_mode \in BOOLEAN
    /\ qr_data = <<>>
    /\ qr_int_str = <<>>
    /\ start = 0
    /\ decoded_chars = <<>>
    /\ b64 = <<>>
    /\ fields = <<>>
    /\ NoVerifyState
    /\ http_log = <<>>
    /\ log_mark = 0
    /\ calls = 0

NextVerify ==
    \/ BeginExtract
    \/ RemovePrefix
    \/ CheckChars
    \/ CheckLen
    \/ LoopStep
    \/ TranscodeReturnToExtract
    \/ B64ToFields
    \/ ExtractReturn
    \/ BeginVerify
    \/ VerifyReadKid
    \/ VerifyKeyUrl
    \/ VerifyFetch
    \/ SelectKey
    \/ VerifyDecodeKey
    \/ DecodeSig
    \/ VerifyEcdsa

SpecVerify == InitVerify /\ [][NextVerify]_vars

VerifyFinished == Finished /\ entry = "validate_jws_data"

\* The requests the current call has issued so far.
RequestsOfCall == Len(http_log) - log_mark

\* C8: in verify, once a key has been resolved and the signature decoded, the
\* call ends with a boolean result and never with an error, also for a key
\* point off the curve and for r or s outside 1..n-1.
C8_InvalidSignatureNeverRaises ==
    (VerifyFinished /\ rs # <<>>)
    => (ret.kind = "return" /\ ret.value \in BOOLEAN)

\* C10 as stated: every finished verify call has issued exactly one GET, to
\* iss followed by "/.well-known/jwks.json"; a decode call issues none; the
\* key set a verify call uses is the answer to its own request.
C10_ExactlyOneGetPerVerify ==
    /\ VerifyFinished =>
          /\ RequestsOfCall = 1
          /\ http_log[Len(http_log)].url
                = json_loads(verify_args.payload_json).value.iss
                     \o "/.well-known/jwks.json"
    /\ entry = "extract_jws_data_from_qr_data" => RequestsOfCall = 0
    /\ (entry = "validate_jws_data" /\ pc \in {"pk_select", "ver_decode_key"})
          => public_keyset_json = http_log[Len(http_log)].response.body

HeaderHasKid ==
    /\ verify_args.header_json.parses
    /\ "kid" \in DOMAIN verify_args.header_json.value

PayloadHasIss ==
    /\ verify_args.payload_json.parses
    /\ "iss" \in DOMAIN verify_args.payload_json.value

\* C10 amended: a verify call issues at most one GET; a finished one has
\* issued exactly one if its header parses and has "kid" and its payload
\* parses and has "iss", and none otherwise; the URL is iss followed by
\* "/.well-known/jwks.json"; a decode call issues none; the key set a verify
\* call uses is the answer to its own request.
C10_OneGetOnceKidAndIssAreRead ==
    /\ entry = "validate_jws_data" =>
          /\ RequestsOfCall \in {0, 1}
          /\ Finished =>
                (RequestsOfCall = 1 <=> (HeaderHasKid /\ PayloadHasIss))
          /\ RequestsOfCall = 1 =>
                /\ http_log[Len(http_log)].url
                      = verify_args.payload_json.value.iss
                           \o "/.well-known/jwks.json"
                /\ pc \in {"pk_select", "ver_decode_key", "sig_decode",
                           "ver_ecdsa", "done"}
                      => /\ http_log[Len(http_log)].response.ok
                         /\ public_keyset_json
                               = http_log[Len(http_log)].response.body
    /\ entry = "extract_jws_data_from_qr_data" => RequestsOfCall = 0

\* A second verify call for the same issuer has issued its own request: the
\* first call's request failed, the second got a key set and verified with it.
C10_Witness ==
    /\ VerifyFinished
    /\ calls = 2
    /\ Len(http_log) = 2
    /\ log_mark = 1
    /\ http_log[1].url = "https://example.org/issuer/.well-known/jwks.json"
    /\ http_log[2].url = http_log[1].url
    /\ ~http_log[1].response.ok
    /\ http_log[2].response.ok
    /\ public_keyset_json = http_log[2].response.body
    /\ ret = Return(TRUE)

(***************************************************************************)
(* The scheme prefix and the segment count of decode (SpecDecode).         *)
(***************************************************************************)
\* What decode makes of a digit string that reaches the transcoder: the
\* length error, the error of the splitter, or the four results.
DecodeOfDigits(s, strict) ==
    IF Len(s) % 2 = 1 THEN OddLengthError(Len(s))
    ELSE LET text == [i \in 1..(Len(s) \div 2) |->
                         10 * (s[2 * i - 1] - 48) + (s[2 * i] - 48) + 45]
             f    == b64_to_fields(text, strict)
         IN  IF f.kind # "return" THEN f
             ELSE Return(<<SignedDoc(text), f.value[1], f.value[2], f.value[3]>>)

\* C11: for a digit string s, decode of "shc:/" followed by s and decode of
\* s end the same way, with what decode makes of s alone: the prefix is cut
\* off once before transcoding, and an input that does not start with it
\* reaches the transcoder unchanged.
C11_PrefixDoesNotChangeOutcome ==
    /\ pc # "ext_remove_prefix" =>
          /\ StartsWith(qr_data, ShcPrefix)
                => qr_data = ShcPrefix \o qr_int_str
          /\ ~StartsWith(qr_data, ShcPrefix) => qr_int_str = qr_data
    /\ \A s \in {qr_data, Slice(qr_data, 5, Len(qr_data))} :
          (Finished /\ IsDigitString(s) /\ qr_data \in {s, ShcPrefix \o s})
             => ret = DecodeOfDigits(s, strict_mode)

\* "shc:/" followed by the digits of eyJhIjoxfQ.AQIA_f97fQ.AQ was decoded to
\* the results of the digits alone.
C11_Witness ==
    /\ DecodeDone
    /\ qr_data = ShcPrefix \o QrEncode(
          <<101, 121, 74, 104, 73, 106, 111, 120, 102, 81, 46,
            65, 81, 73, 65, 95, 102, 57, 55, 102, 81, 46, 65, 81>>)
    /\ qr_int_str = QrEncode(
          <<101, 121, 74, 104, 73, 106, 111, 120, 102, 81, 46,
            65, 81, 73, 65, 95, 102, 57, 55, 102, 81, 46, 65, 81>>)
    /\ ret.value[2] = <<123, 34, 97, 34, 58, 49, 125>>
    /\ ret.value[4] = <<65, 81>>

\* C12: whenever decode succeeds, the transcoded string is exactly three
\* segments separated by dots (it has exactly two dots): an input of fewer
\* or more segments is never decoded successfully.
C12_DecodedTextHasThreeSegments ==
    DecodeDone =>
       /\ Cardinality(DotsOf(b64)) = 2
       /\ Len(Split(b64, 46)) = 3

====
